---- MODULE Spec2Model ----
(***************************************************************************)
(* The bid-to-transaction state machine of the AgriMarket repository.      *)
(*                                                                         *)
(* src/main.py is a Streamlit application: every browser session runs the  *)
(* script in a thread of its own, and all sessions share ONE sqlite3       *)
(* connection (init_database is an st.cache_resource, opened with          *)
(* check_same_thread=False).  The relations produce, bids and transactions *)
(* below are that connection's view of the store (uncommitted writes       *)
(* included); committed is what conn.commit() has made durable.            *)
(*                                                                         *)
(* src/back.py is a separate library over its own store (products,         *)
(* purchases); each of its functions opens a connection, writes, commits   *)
(* and closes, so every write of back.py is durable at once.               *)
(*                                                                         *)
(* Quantities and amounts are REAL/INTEGER columns; they are modelled by   *)
(* small integers.                                                         *)
(*                                                                         *)
(* Specifications: Spec, SpecPay and SpecOwner run main.py's handlers with *)
(* three logged-in sessions (two of the farmer and one buyer; one farmer   *)
(* and two of the buyer; two farmers and one buyer); SpecView runs listing,*)
(* bidding and view_produce_bids; SpecBack runs back.py.                   *)
(***************************************************************************)
EXTENDS Integers, Sequences, FiniteSets, TLC

\* ------------------------------------------------------------- bounds
MaxProduce == 1        \* produce rows created
MaxBids == 2           \* bid rows created
MaxTransactions == 2   \* accept_bid calls that may add a transactions row
MaxQty == 2            \* quantities entered in the forms: 1..MaxQty
MaxAmount == 2         \* bid amounts entered in the forms: 1..MaxAmount
NTxnIds == 2           \* distinct values generate_transaction_id returns
MaxProducts == 1       \* back.py: products rows created
MaxPurchases == 2      \* back.py: add_purchase calls that pass the stock test

\* ------------------------------------------------------------- users and sessions
Farmers == {1, 3}
Buyers == {2}
Sessions == {1, 2, 3}

None == [none |-> TRUE]

PaymentMethods == {"Credit Card", "UPI"}

\* back.py: the threads calling the library, and the quantities they pass
\* (the functions take any integer: 0 and a negative value are included).
Callers == {1, 2}
QtyInputs == (-1)..MaxQty

VARIABLES
    session_state, \* main.py: st.session_state.user_id of each logged-in browser session
    produce,       \* main.py: Seq of [farmer_id, quantity, status]; id = index
    bids,          \* main.py: Seq of [produce_id, buyer_id, bid_amount, quantity_requested, status, created_at]
    transactions,  \* main.py: Seq of [transaction_id, bid_id, farmer_id, buyer_id, amount, payment_method, payment_status]
    committed,     \* main.py: the three relations as of the last conn.commit()
    pc,            \* main.py: where each session's script run stands
    arg,           \* main.py: the argument of the handler a session is in
    bid,           \* main.py: accept_bid's local row `bid` (None outside accept_bid)
    h_produce,     \* history: the produce row of the bid's listing when accept_bid was entered
    shown,         \* main.py: the rows view_produce_bids last fetched in each session
    products,      \* back.py: Seq of [quantity, deleted]; id = index (AUTOINCREMENT ids are not reused)
    purchases,     \* back.py: Seq of [username, product_id, quantity]
    bpc,           \* back.py: where each caller of add_purchase stands
    blocal,        \* back.py: add_purchase's locals [pid, qty, product]
    result,        \* back.py: what the caller's last add_purchase returned
    stocked,       \* history: per product, [listed: the quantity add_product gave it,
                   \* purchases_only: FALSE once update_product was called on it from
                   \* outside add_purchase or an add_purchase with qty <= 0 passed the
                   \* stock test]
    started        \* history: the number of add_purchase calls that passed the stock test

mainvars == <<session_state, produce, bids, transactions, committed, pc, arg, bid,
              h_produce, shown>>
backvars == <<products, purchases, bpc, blocal, result, stocked, started>>
vars == <<session_state, produce, bids, transactions, committed, pc, arg, bid,
          h_produce, shown, products, purchases, bpc, blocal, result, stocked, started>>

\* ------------------------------------------------------------- helpers
\* st.session_state.user_id, set by login_page from the users row.
user_id(s) == session_state[s]

\* st.session_state.user_type: the users row's user_type column.
user_type(s) == IF user_id(s) \in Farmers THEN "farmer" ELSE "buyer"

\* CREATE TABLE produce: status TEXT DEFAULT 'active'
produce_row(farmer, quantity) ==
    [farmer_id |-> farmer, quantity |-> quantity, status |-> "active"]

\* CREATE TABLE bids: status TEXT DEFAULT 'pending', created_at TIMESTAMP
\* DEFAULT CURRENT_TIMESTAMP
bid_row(produce_id, buyer, bid_amount, quantity_requested, created_at) ==
    [produce_id |-> produce_id, buyer_id |-> buyer, bid_amount |-> bid_amount,
     quantity_requested |-> quantity_requested, status |-> "pending",
     created_at |-> created_at]

\* CURRENT_TIMESTAMP at an INSERT INTO bids, in whole seconds counted from the
\* first bid: the second of the latest stored bid, or the one after it.
CURRENT_TIMESTAMP ==
    IF bids = <<>> THEN {1}
    ELSE {bids[Len(bids)].created_at, bids[Len(bids)].created_at + 1}

\* The INSERT with the values of farmer_id and buyer_id in each other's place.
transaction_row_swapped(transaction_id, bid_id, farmer, buyer, amount) ==
    [transaction_id |-> transaction_id, bid_id |-> bid_id, farmer_id |-> buyer,
     buyer_id |-> farmer, amount |-> amount, payment_method |-> "NULL",
     payment_status |-> "pending"]

\* CREATE TABLE transactions: payment_method NULL, payment_status DEFAULT 'pending'
transaction_row(transaction_id, bid_id, farmer, buyer, amount) ==
    [transaction_id |-> transaction_id, bid_id |-> bid_id, farmer_id |-> farmer,
     buyer_id |-> buyer, amount |-> amount, payment_method |-> "NULL",
     payment_status |-> "pending"]

\* generate_transaction_id: "TXN_" and the first 8 hex digits of a uuid4; two
\* calls may return the same value.
generate_transaction_id == 1..NTxnIds

\* total_amount with the quantity left out (the unit bid taken for the total).
total_amount_unit(b) == b.bid_amount

\* total_amount = bid[3] * bid[4]
total_amount(b) == b.bid_amount * b.quantity_requested

\* The transactions table without UNIQUE on transaction_id: no INSERT raises.
unique_violation_never(tid) == FALSE

\* transaction_id TEXT UNIQUE NOT NULL: the INSERT raises IntegrityError when
\* the value is already in the relation.
unique_violation(tid) == \E i \in DOMAIN transactions : transactions[i].transaction_id = tid

\* conn.commit() on the shared connection: everything written through it so far,
\* by whichever session, becomes durable.
Snapshot(p, b, t) == [produce |-> p, bids |-> b, transactions |-> t]

\* Sessions inside accept_bid that may still INSERT a transactions row.
AcceptPcs == {"accept_bid", "accept_update", "accept_insert"}

InAccept == {s \in Sessions : pc[s] \in AcceptPcs}

InPlaceBid == {s \in Sessions : pc[s] = "place_bid"}

\* ------------------------------------------------------------- initial state
\* The relations are empty and every session is logged in and idle.
MainEmpty ==
    /\ produce = <<>>
    /\ bids = <<>>
    /\ transactions = <<>>
    /\ committed = Snapshot(<<>>, <<>>, <<>>)
    /\ pc = [s \in Sessions |-> "idle"]
    /\ arg = [s \in Sessions |-> None]
    /\ bid = [s \in Sessions |-> None]
    /\ h_produce = [s \in Sessions |-> None]
    /\ shown = [s \in Sessions |-> None]

\* Sessions 1 and 2 are two browser sessions of farmer 1, session 3 is buyer 2.
InitMain ==
    /\ session_state = <<1, 1, 2>>
    /\ MainEmpty

InitBack ==
    /\ products = <<>>
    /\ purchases = <<>>
    /\ bpc = [c \in Callers |-> "idle"]
    /\ blocal = [c \in Callers |-> None]
    /\ result = [c \in Callers |-> "none"]
    /\ stocked = <<>>
    /\ started = 0

Init == InitMain /\ InitBack

\* ------------------------------------------------------------- main.py actions

\* add_produce_page: the form's number_input gives quantity >= 0.1; the row is
\* owned by the session's user and starts 'active'; INSERT then commit.
add_produce_page(s, quantity) ==
    /\ pc[s] = "idle"
    /\ user_type(s) = "farmer"
    /\ Len(produce) < MaxProduce
    /\ produce' = Append(produce, produce_row(user_id(s), quantity))
    /\ committed' = Snapshot(produce', bids, transactions)
    /\ UNCHANGED <<bids, transactions, pc, arg, bid, h_produce>>
    /\ UNCHANGED <<session_state, shown, backvars>>

\* browse_produce_page / display_produce_card: a buyer's script run lists the
\* produce WHERE status = 'active' and submits the bid form of one card;
\* quantity_requested is capped by the quantity on the card.
display_produce_card(s, p, bid_amount, quantity_requested) ==
    /\ pc[s] = "idle"
    /\ user_type(s) = "buyer"
    /\ p \in DOMAIN produce
    /\ produce[p].status = "active"
    /\ quantity_requested <= produce[p].quantity
    /\ Len(bids) + Cardinality(InPlaceBid) < MaxBids
    /\ pc' = [pc EXCEPT ![s] = "place_bid"]
    /\ arg' = [arg EXCEPT ![s] = [produce_id |-> p, bid_amount |-> bid_amount,
                                  quantity_requested |-> quantity_requested]]
    /\ UNCHANGED <<produce, bids, transactions, committed, bid, h_produce>>
    /\ UNCHANGED <<session_state, shown, backvars>>

\* place_bid that also takes quantity_requested off the listing's quantity.
place_bid_reserving(s) ==
    /\ pc[s] = "place_bid"
    /\ \E now \in CURRENT_TIMESTAMP :
          bids' = Append(bids, bid_row(arg[s].produce_id, user_id(s), arg[s].bid_amount,
                                       arg[s].quantity_requested, now))
    /\ produce' = [produce EXCEPT ![arg[s].produce_id].quantity =
                                     @ - arg[s].quantity_requested]
    /\ committed' = Snapshot(produce', bids', transactions)
    /\ pc' = [pc EXCEPT ![s] = "idle"]
    /\ arg' = [arg EXCEPT ![s] = None]
    /\ UNCHANGED <<transactions, bid, h_produce>>
    /\ UNCHANGED <<session_state, shown, backvars>>

\* place_bid: INSERT INTO bids, commit.
place_bid(s) ==
    /\ pc[s] = "place_bid"
    /\ \E now \in CURRENT_TIMESTAMP :
          bids' = Append(bids, bid_row(arg[s].produce_id, user_id(s), arg[s].bid_amount,
                                       arg[s].quantity_requested, now))
    /\ committed' = Snapshot(produce, bids', transactions)
    /\ pc' = [pc EXCEPT ![s] = "idle"]
    /\ arg' = [arg EXCEPT ![s] = None]
    /\ UNCHANGED <<produce, transactions, bid, h_produce>>
    /\ UNCHANGED <<session_state, shown, backvars>>

\* farmer_dashboard listing the pending bids on every farmer's produce (the
\* query without WHERE p.farmer_id = ?).
farmer_dashboard_all(s, b, button) ==
    /\ pc[s] = "idle"
    /\ user_type(s) = "farmer"
    /\ b \in DOMAIN bids
    /\ bids[b].status = "pending"
    /\ button = "Accept" =>
          Len(transactions) + Cardinality({x \in Sessions : pc[x] \in AcceptPcs})
              < MaxTransactions
    /\ pc' = [pc EXCEPT ![s] = IF button = "Accept" THEN "accept_bid" ELSE "reject_bid"]
    /\ arg' = [arg EXCEPT ![s] = b]
    /\ UNCHANGED <<produce, bids, transactions, committed, bid, h_produce>>
    /\ UNCHANGED <<session_state, shown, backvars>>

\* farmer_dashboard: the script run lists the bids on the session user's
\* produce and renders Accept / Reject only for a bid it read as 'pending';
\* the clicked button calls accept_bid(bid[0]) or reject_bid(bid[0]).
farmer_dashboard(s, b, button) ==
    /\ pc[s] = "idle"
    /\ user_type(s) = "farmer"
    /\ b \in DOMAIN bids
    /\ produce[bids[b].produce_id].farmer_id = user_id(s)
    /\ bids[b].status = "pending"
    /\ button = "Accept" =>
          Len(transactions) + Cardinality(InAccept) < MaxTransactions
    /\ pc' = [pc EXCEPT ![s] = IF button = "Accept" THEN "accept_bid" ELSE "reject_bid"]
    /\ arg' = [arg EXCEPT ![s] = b]
    /\ UNCHANGED <<produce, bids, transactions, committed, bid, h_produce>>
    /\ UNCHANGED <<session_state, shown, backvars>>

\* accept_bid, SELECT b.*, p.title ... WHERE b.id = ?;  `if bid:` is false
\* when no row comes back, and the function then returns without a message.
accept_bid_select(s) ==
    /\ pc[s] = "accept_bid"
    /\ IF arg[s] \in DOMAIN bids /\ bids[arg[s]].produce_id \in DOMAIN produce
         THEN /\ bid' = [bid EXCEPT ![s] = bids[arg[s]]]
              /\ h_produce' = [h_produce EXCEPT ![s] = produce[bids[arg[s]].produce_id]]
              /\ pc' = [pc EXCEPT ![s] = "accept_update"]
              /\ arg' = arg
         ELSE /\ pc' = [pc EXCEPT ![s] = "idle"]
              /\ arg' = [arg EXCEPT ![s] = None]
              /\ UNCHANGED <<bid, h_produce>>
    /\ UNCHANGED <<produce, bids, transactions, committed>>
    /\ UNCHANGED <<session_state, shown, backvars>>

\* The status accept_bid writes.
accepted_status == "accepted"

\* accept_bid, UPDATE bids SET status = 'accepted' WHERE id = ?  (no condition
\* on the current status, no commit yet).
accept_bid_update(s) ==
    /\ pc[s] = "accept_update"
    /\ bids' = [bids EXCEPT ![arg[s]].status = accepted_status]
    /\ pc' = [pc EXCEPT ![s] = "accept_insert"]
    /\ UNCHANGED <<produce, transactions, committed, arg, bid, h_produce>>
    /\ UNCHANGED <<session_state, shown, backvars>>

\* accept_bid, INSERT INTO transactions with a fresh generate_transaction_id():
\* farmer_id is the session's user, buyer_id is bid[2].  A transaction_id that
\* is already stored raises; `except Exception` shows st.error and returns:
\* there is no rollback, the UPDATE stays pending on the shared connection.
accept_bid_insert(s) ==
    /\ pc[s] = "accept_insert"
    /\ \E tid \in generate_transaction_id :
          IF unique_violation(tid)
            THEN /\ pc' = [pc EXCEPT ![s] = "idle"]
                 /\ arg' = [arg EXCEPT ![s] = None]
                 /\ bid' = [bid EXCEPT ![s] = None]
                 /\ h_produce' = [h_produce EXCEPT ![s] = None]
                 /\ UNCHANGED transactions
            ELSE /\ transactions' = Append(transactions,
                        transaction_row(tid, arg[s], user_id(s), bid[s].buyer_id,
                                        total_amount(bid[s])))
                 /\ pc' = [pc EXCEPT ![s] = "accept_commit"]
                 /\ UNCHANGED <<arg, bid, h_produce>>
    /\ UNCHANGED <<produce, bids, committed>>
    /\ UNCHANGED <<session_state, shown, backvars>>

\* accept_bid, conn.commit(); st.success; st.rerun().
accept_bid_commit(s) ==
    /\ pc[s] = "accept_commit"
    /\ committed' = Snapshot(produce, bids, transactions)
    /\ pc' = [pc EXCEPT ![s] = "idle"]
    /\ arg' = [arg EXCEPT ![s] = None]
    /\ bid' = [bid EXCEPT ![s] = None]
    /\ h_produce' = [h_produce EXCEPT ![s] = None]
    /\ UNCHANGED <<produce, bids, transactions>>
    /\ UNCHANGED <<session_state, shown, backvars>>

\* The status reject_bid writes.
rejected_status == "rejected"

\* reject_bid with the UPDATE's WHERE on the listing (WHERE produce_id = the
\* bid's produce_id): every bid on the listing is set 'rejected'.
reject_bid_listing(s) ==
    /\ pc[s] = "reject_bid"
    /\ bids' = [b \in DOMAIN bids |->
                  IF bids[b].produce_id = bids[arg[s]].produce_id
                    THEN [bids[b] EXCEPT !.status = rejected_status]
                    ELSE bids[b]]
    /\ committed' = Snapshot(produce, bids', transactions)
    /\ pc' = [pc EXCEPT ![s] = "idle"]
    /\ arg' = [arg EXCEPT ![s] = None]
    /\ UNCHANGED <<produce, transactions, bid, h_produce>>
    /\ UNCHANGED <<session_state, shown, backvars>>

\* reject_bid: UPDATE bids SET status = 'rejected' WHERE id = ? (no condition on
\* the current status), commit, st.success.
reject_bid(s) ==
    /\ pc[s] = "reject_bid"
    /\ bids' = [bids EXCEPT ![arg[s]].status = rejected_status]
    /\ committed' = Snapshot(produce, bids', transactions)
    /\ pc' = [pc EXCEPT ![s] = "idle"]
    /\ arg' = [arg EXCEPT ![s] = None]
    /\ UNCHANGED <<produce, transactions, bid, h_produce>>
    /\ UNCHANGED <<session_state, shown, backvars>>

\* mark_as_sold as a toggle, rendered for every listing of the session's
\* user: a 'sold' listing is set 'active' again.
mark_as_sold_toggle(s, p) ==
    /\ pc[s] = "idle"
    /\ user_type(s) = "farmer"
    /\ p \in DOMAIN produce
    /\ produce[p].farmer_id = user_id(s)
    /\ produce' = [produce EXCEPT ![p].status =
                                     IF @ = "active" THEN "sold" ELSE "active"]
    /\ committed' = Snapshot(produce', bids, transactions)
    /\ UNCHANGED <<bids, transactions, pc, arg, bid, h_produce>>
    /\ UNCHANGED <<session_state, shown, backvars>>

\* mark_as_sold, called from my_produce_page, which renders "Mark as Sold" for
\* the session user's 'active' produce: UPDATE produce SET status = 'sold',
\* commit.
mark_as_sold(s, p) ==
    /\ pc[s] = "idle"
    /\ user_type(s) = "farmer"
    /\ p \in DOMAIN produce
    /\ produce[p].farmer_id = user_id(s)
    /\ produce[p].status = "active"
    /\ produce' = [produce EXCEPT ![p].status = "sold"]
    /\ committed' = Snapshot(produce', bids, transactions)
    /\ UNCHANGED <<bids, transactions, pc, arg, bid, h_produce>>
    /\ UNCHANGED <<session_state, shown, backvars>>

\* my_bids_page: "Pay Now" is rendered for the session user's 'accepted' bid
\* when the first transactions row of the bid reads 'pending'.
my_bids_page(s, b) ==
    /\ pc[s] = "idle"
    /\ user_type(s) = "buyer"
    /\ b \in DOMAIN bids
    /\ bids[b].buyer_id = user_id(s)
    /\ bids[b].status = "accepted"
    /\ \E i \in DOMAIN transactions :
          /\ transactions[i].bid_id = b
          /\ \A j \in 1..(i - 1) : transactions[j].bid_id # b
          /\ transactions[i].payment_status = "pending"
    /\ pc' = [pc EXCEPT ![s] = "process_payment"]
    /\ arg' = [arg EXCEPT ![s] = b]
    /\ UNCHANGED <<produce, bids, transactions, committed, bid, h_produce>>
    /\ UNCHANGED <<session_state, shown, backvars>>

\* A payment_status that is none of the three the schema names.
paid_status == "paid"

\* The payment_status process_payment writes.
completed_status == "completed"

\* process_payment: when a transactions row of the bid exists, the submitted
\* form runs UPDATE transactions SET payment_method = ?, payment_status =
\* 'completed' WHERE bid_id = ? and commits.
process_payment(s, payment_method) ==
    /\ pc[s] = "process_payment"
    /\ IF \E i \in DOMAIN transactions : transactions[i].bid_id = arg[s]
         THEN /\ transactions' = [i \in DOMAIN transactions |->
                    IF transactions[i].bid_id = arg[s]
                      THEN [transactions[i] EXCEPT !.payment_method = payment_method,
                                                   !.payment_status = completed_status]
                      ELSE transactions[i]]
              /\ committed' = Snapshot(produce, bids, transactions')
                   ELSE UNCHANGED <<transactions, committed>>
    /\ pc' = [pc EXCEPT ![s] = "idle"]
    /\ arg' = [arg EXCEPT ![s] = None]
    /\ UNCHANGED <<produce, bids, bid, h_produce>>
    /\ UNCHANGED <<session_state, shown, backvars>>

Next ==
    \/ \E s \in Sessions, q \in 1..MaxQty : add_produce_page(s, q)
    \/ \E s \in Sessions, p \in 1..MaxProduce, a \in 1..MaxAmount, q \in 1..MaxQty :
          display_produce_card(s, p, a, q)
    \/ \E s \in Sessions : place_bid(s)
    \/ \E s \in Sessions, b \in 1..MaxBids, button \in {"Accept", "Reject"} :
          farmer_dashboard(s, b, button)
    \/ \E s \in Sessions : accept_bid_select(s)
    \/ \E s \in Sessions : accept_bid_update(s)
    \/ \E s \in Sessions : accept_bid_insert(s)
    \/ \E s \in Sessions : accept_bid_commit(s)
    \/ \E s \in Sessions : reject_bid(s)
    \/ \E s \in Sessions, p \in 1..MaxProduce : mark_as_sold(s, p)
    \/ \E s \in Sessions, b \in 1..MaxBids : my_bids_page(s, b)
    \/ \E s \in Sessions, m \in PaymentMethods : process_payment(s, m)

Spec == Init /\ [][Next]_vars

\* ORDER BY b.created_at ASC: the oldest bid first.
oldest_first(a, b) == bids[a].created_at <= bids[b].created_at

\* ORDER BY b.created_at DESC: row a may come before row b.
newest_first(a, b) == bids[a].created_at >= bids[b].created_at

\* The ids of the rows of SELECT b.* FROM bids b JOIN users u ... JOIN produce
\* p ... WHERE b.produce_id = ?  (every bid has its users and produce row, so
\* the joins drop none).
listing_bids(p) == {b \in DOMAIN bids : bids[b].produce_id = p}

\* cursor.fetchall() of view_produce_bids' query: the listing's bids, each
\* once, in an order ORDER BY b.created_at DESC allows; sqlite does not fix
\* the order of rows with equal created_at.
fetchall(p) ==
    {rows \in [1..Cardinality(listing_bids(p)) -> listing_bids(p)] :
        \A i \in DOMAIN rows, j \in DOMAIN rows :
            i < j => (rows[i] # rows[j] /\ newest_first(rows[i], rows[j]))}

\* view_produce_bids, called from my_produce_page ("View Bids" on a listing
\* of the session's user): fetch the listing's bids and render them.
view_produce_bids(s, p) ==
    /\ pc[s] = "idle"
    /\ user_type(s) = "farmer"
    /\ p \in DOMAIN produce
    /\ produce[p].farmer_id = user_id(s)
    /\ \E rows \in fetchall(p) :
          shown' = [shown EXCEPT ![s] = [produce_id |-> p, bids |-> rows]]
    /\ UNCHANGED <<session_state, produce, bids, transactions, committed, pc, arg,
                   bid, h_produce>>
    /\ UNCHANGED backvars

\* Listing, bidding and viewing the bids of a listing.
NextView ==
    \/ \E s \in Sessions, q \in 1..MaxQty : add_produce_page(s, q)
    \/ \E s \in Sessions, p \in 1..MaxProduce, a \in 1..MaxAmount, q \in 1..MaxQty :
          display_produce_card(s, p, a, q)
    \/ \E s \in Sessions : place_bid(s)
    \/ \E s \in Sessions, p \in 1..MaxProduce : view_produce_bids(s, p)

SpecView == Init /\ [][NextView]_vars

\* Session 1 is farmer 1, sessions 2 and 3 are two browser sessions of buyer 2.
InitPay ==
    /\ session_state = <<1, 2, 2>>
    /\ MainEmpty
    /\ InitBack

SpecPay == InitPay /\ [][Next]_vars

\* Session 1 is farmer 1, session 2 is farmer 3, session 3 is buyer 2.
InitOwner ==
    /\ session_state = <<1, 3, 2>>
    /\ MainEmpty
    /\ InitBack

SpecOwner == InitOwner /\ [][Next]_vars

\* ------------------------------------------------------------- back.py

\* get_product_by_id: SELECT * FROM products WHERE id = ?; fetchone() is None
\* when no row has the id.
get_product_by_id(pid) ==
    IF pid \in DOMAIN products /\ ~products[pid].deleted THEN products[pid] ELSE None

\* update_product(pid, quantity = q): `if quantity is not None` runs UPDATE
\* products SET quantity = ? WHERE id = ? (0 is not None), then commits; the
\* UPDATE changes no row when the id is absent.
update_product(prods, pid, quantity) ==
    IF pid \in DOMAIN prods /\ ~prods[pid].deleted
      THEN [prods EXCEPT ![pid].quantity = quantity]
      ELSE prods

\* The stock test with > for >=: a request for all that is left is refused.
has_stock_strict(product, qty) == product # None /\ product.quantity > qty

\* `product and product[4] >= qty` of add_purchase.
has_stock(product, qty) == product # None /\ product.quantity >= qty

\* The quantity add_purchase writes back: product[4] - qty, from the row it read.
remaining(product, qty) == product.quantity - qty

\* Quantity of the purchases rows of product pid.
RECURSIVE purchased(_, _)
purchased(rows, pid) ==
    IF rows = <<>> THEN 0
    ELSE (IF Head(rows).product_id = pid THEN Head(rows).quantity ELSE 0)
         + purchased(Tail(rows), pid)

\* add_product: INSERT INTO products, commit (no check of quantity).
add_product(quantity) ==
    /\ Len(products) < MaxProducts
    /\ products' = Append(products, [quantity |-> quantity, deleted |-> FALSE])
    /\ stocked' = Append(stocked, [listed |-> quantity, purchases_only |-> TRUE])
    /\ UNCHANGED <<purchases, bpc, blocal, result, started>>
    /\ UNCHANGED mainvars

\* update_product called by the application with a new quantity.
update_product_call(pid, quantity) ==
    /\ pid \in DOMAIN products
    /\ products' = update_product(products, pid, quantity)
    /\ stocked' = [stocked EXCEPT ![pid].purchases_only = FALSE]
    /\ UNCHANGED <<purchases, bpc, blocal, result, started>>
    /\ UNCHANGED mainvars

\* delete_product: DELETE FROM products WHERE id = ?, commit.
delete_product(pid) ==
    /\ pid \in DOMAIN products
    /\ ~products[pid].deleted
    /\ products' = [products EXCEPT ![pid].deleted = TRUE]
    /\ UNCHANGED <<purchases, bpc, blocal, result, stocked, started>>
    /\ UNCHANGED mainvars

\* add_purchase, product = get_product_by_id(pid) and the test
\* `if product and product[4] >= qty`; when it fails the call returns False.
add_purchase_read(c, pid, qty) ==
    /\ bpc[c] = "idle"
    /\ LET product == get_product_by_id(pid) IN
         IF has_stock(product, qty)
           THEN /\ started < MaxPurchases
                /\ started' = started + 1
                /\ stocked' = IF qty <= 0 THEN [stocked EXCEPT ![pid].purchases_only = FALSE]
                                         ELSE stocked
                /\ bpc' = [bpc EXCEPT ![c] = "update"]
                /\ blocal' = [blocal EXCEPT ![c] =
                                 [pid |-> pid, qty |-> qty, product |-> product]]
                /\ result' = [result EXCEPT ![c] = "none"]
           ELSE /\ result' = [result EXCEPT ![c] = "False"]
                /\ UNCHANGED <<bpc, blocal, started, stocked>>
    /\ UNCHANGED <<products, purchases>>
    /\ UNCHANGED mainvars

\* add_purchase, update_product(pid, quantity = product[4] - qty): a connection
\* of its own, UPDATE, commit.
add_purchase_update(c) ==
    /\ bpc[c] = "update"
    /\ products' = update_product(products, blocal[c].pid,
                                  remaining(blocal[c].product, blocal[c].qty))
    /\ bpc' = [bpc EXCEPT ![c] = "insert"]
    /\ UNCHANGED <<purchases, blocal, result, stocked, started>>
    /\ UNCHANGED mainvars

\* add_purchase, INSERT INTO purchases on another connection, commit,
\* return True.
add_purchase_insert(c) ==
    /\ bpc[c] = "insert"
    /\ purchases' = Append(purchases, [username |-> c, product_id |-> blocal[c].pid,
                                       quantity |-> blocal[c].qty])
    /\ bpc' = [bpc EXCEPT ![c] = "idle"]
    /\ blocal' = [blocal EXCEPT ![c] = None]
    /\ result' = [result EXCEPT ![c] = "True"]
    /\ UNCHANGED <<products, stocked, started>>
    /\ UNCHANGED mainvars

\* add_purchase stops after update_product has committed and before the INSERT
\* commits (the INSERT raises, e.g. sqlite3.OperationalError "database is
\* locked", or the process ends): nothing undoes the committed UPDATE.
add_purchase_raise(c) ==
    /\ bpc[c] = "insert"
    /\ bpc' = [bpc EXCEPT ![c] = "idle"]
    /\ blocal' = [blocal EXCEPT ![c] = None]
    /\ result' = [result EXCEPT ![c] = "raised"]
    /\ UNCHANGED <<products, purchases, stocked, started>>
    /\ UNCHANGED mainvars

NextBack ==
    \/ \E q \in QtyInputs : add_product(q)
    \/ \E pid \in 1..MaxProducts, q \in QtyInputs : update_product_call(pid, q)
    \/ \E pid \in 1..MaxProducts : delete_product(pid)
    \/ \E c \in Callers, pid \in 1..MaxProducts, q \in QtyInputs : add_purchase_read(c, pid, q)
    \/ \E c \in Callers : add_purchase_update(c)
    \/ \E c \in Callers : add_purchase_insert(c)
    \/ \E c \in Callers : add_purchase_raise(c)

SpecBack == Init /\ [][NextBack]_vars

\* ------------------------------------------------------------- properties
\* The rows of transactions that belong to bid b.
TransactionsOf(rel, b) == {i \in DOMAIN rel : rel[i].bid_id = b}

\* Session s leaves accept_bid through conn.commit() and st.success.
AcceptSucceeds(s) == pc[s] = "accept_commit" /\ pc'[s] = "idle"

\* Session s takes a step of accept_bid after its SELECT.
AcceptStep(s) ==
    pc[s] \in {"accept_update", "accept_insert", "accept_commit"} /\ pc'[s] # pc[s]

\* Session s runs reject_bid.
RejectStep(s) == pc[s] = "reject_bid" /\ pc'[s] = "idle"

\* Quantity of the bids on listing p other than bid b whose acceptance is
\* recorded ('accepted', with a transactions row): the stock that earlier
\* acceptances have taken.
RECURSIVE accepted_qty(_, _, _)
accepted_qty(n, p, b) ==
    IF n = 0 THEN 0
    ELSE (IF /\ n # b
             /\ bids[n].produce_id = p
             /\ bids[n].status = "accepted"
             /\ TransactionsOf(transactions, n) # {}
            THEN bids[n].quantity_requested ELSE 0)
         + accepted_qty(n - 1, p, b)

\* C1 (as claimed): for a product listed with quantity Q >= 0 and add_purchase
\* calls with positive quantities running concurrently, the quantities of the
\* calls that succeed (the purchases rows) sum to at most Q; so when the
\* requests sum to more than Q at least one call returns False.
C1_NoOversell ==
    \A p \in DOMAIN products :
        (stocked[p].purchases_only /\ stocked[p].listed >= 0) =>
            purchased(purchases, p) <= stocked[p].listed

\* C2 (as claimed): the stored quantity of every listing is >= 0 in every
\* reachable state.
C2_QuantityNonNegative ==
    \A p \in DOMAIN products : products[p].quantity >= 0

\* C3 (as claimed): a bid that is 'accepted' or 'rejected' keeps its status in
\* every step: the status leaves 'pending' at most once.
C3_BidStatusTerminal ==
    [][\A b \in DOMAIN bids :
          bids[b].status # "pending" => bids'[b].status = bids[b].status]_vars

\* C4 (as claimed): whenever no accept_bid call is running, every 'accepted'
\* bid has exactly one transactions row.
C4_OneTransactionPerAcceptedBid ==
    (\A s \in Sessions : pc[s] \notin {"accept_update", "accept_insert", "accept_commit"}) =>
        \A b \in DOMAIN bids :
            bids[b].status = "accepted" =>
                Cardinality(TransactionsOf(transactions, b)) = 1

\* C5: every transaction's amount is its bid's bid_amount times its
\* quantity_requested, in every reachable state, and no step changes the
\* amount of a stored transaction.
C5_AmountDerivedAndImmutable ==
    /\ [](\A i \in DOMAIN transactions :
             /\ transactions[i].bid_id \in DOMAIN bids
             /\ transactions[i].amount =
                    bids[transactions[i].bid_id].bid_amount
                    * bids[transactions[i].bid_id].quantity_requested)
    /\ [][\A i \in DOMAIN transactions :
             /\ i \in DOMAIN transactions'
             /\ transactions'[i].amount = transactions[i].amount]_vars

\* C5 witness: a paid transaction (process_payment has updated the row) of a
\* bid with the largest amount and quantity, carrying their product.
C5_Witness ==
    \E i \in DOMAIN transactions :
        /\ transactions[i].payment_status = "completed"
        /\ bids[transactions[i].bid_id].bid_amount = MaxAmount
        /\ bids[transactions[i].bid_id].quantity_requested = MaxQty
        /\ transactions[i].amount = MaxAmount * MaxQty

\* C6 (as claimed): the durable state never holds the UPDATE of an accept_bid
\* without its INSERT: a committed 'accepted' bid that no running accept_bid
\* is working on has a committed transactions row.
C6_NoPartialCommit ==
    \A b \in DOMAIN committed.bids :
        (/\ committed.bids[b].status = "accepted"
         /\ \A s \in Sessions :
               ~(pc[s] \in {"accept_update", "accept_insert", "accept_commit"} /\ arg[s] = b))
        => TransactionsOf(committed.transactions, b) # {}

\* C7 (as claimed): whenever no add_purchase call is running, also after a
\* call has stopped between its two writes, the quantity of a product has gone
\* down by exactly the quantities of its purchases rows.
C7_DecrementMatchesPurchases ==
    (\A c \in Callers : bpc[c] = "idle") =>
        \A p \in DOMAIN products :
            (stocked[p].purchases_only /\ ~products[p].deleted) =>
                products[p].quantity = stocked[p].listed - purchased(purchases, p)

\* C8 (as claimed): an accept_bid that succeeds on a bid it read as 'pending',
\* with quantity_requested at most the listing's quantity at the call, leaves
\* the listing's quantity lower by exactly quantity_requested, 'sold' when
\* that is 0, the bid 'accepted', and exactly one transactions row of the
\* bid, with payment_status 'pending'.
C8_AcceptReservesStock ==
    [][\A s \in Sessions :
          (/\ AcceptSucceeds(s)
           /\ bid[s].status = "pending"
           /\ bid[s].quantity_requested <= h_produce[s].quantity)
          => /\ produce'[bid[s].produce_id].quantity =
                    h_produce[s].quantity - bid[s].quantity_requested
             /\ (produce'[bid[s].produce_id].quantity = 0
                    => produce'[bid[s].produce_id].status = "sold")
             /\ bids'[arg[s]].status = "accepted"
             /\ Cardinality(TransactionsOf(transactions', arg[s])) = 1
             /\ \A i \in TransactionsOf(transactions', arg[s]) :
                    transactions'[i].payment_status = "pending"]_vars

\* C9 (as claimed): an accept_bid on a bid it read as 'pending' that asks for
\* more than the listing has left after the acceptances before it fails: no
\* step of the call changes bids, transactions or produce (the bid stays
\* 'pending', no transactions row is added) and the call does not succeed.
C9_InsufficientStockRejected ==
    [][\A s \in Sessions :
          (/\ AcceptStep(s)
           /\ bid[s].status = "pending"
           /\ bid[s].quantity_requested >
                  h_produce[s].quantity
                  - accepted_qty(Len(bids), bid[s].produce_id, arg[s]))
          => /\ ~AcceptSucceeds(s)
             /\ bids' = bids
             /\ transactions' = transactions
             /\ produce' = produce]_vars

\* C10 (as claimed): accept_bid on a bid it did not read as 'pending' changes
\* neither bids nor transactions and does not succeed; reject_bid on a bid
\* that is not 'pending' changes no bid.
C10_NonPendingUntouched ==
    [][\A s \in Sessions :
          /\ (AcceptStep(s) /\ bid[s].status # "pending")
                => (bids' = bids /\ transactions' = transactions /\ ~AcceptSucceeds(s))
          /\ (RejectStep(s) /\ bids[arg[s]].status # "pending")
                => bids' = bids]_vars

\* Session s runs process_payment's UPDATE.
PaymentStep(s) == pc[s] = "process_payment" /\ pc'[s] = "idle"

\* C11 (as claimed): process_payment for a bid leaves every transactions row
\* of the bid whose payment_status is not 'pending' as it is: payment_status
\* and payment_method are unchanged.
C11_PaidTransactionUntouched ==
    [][\A s \in Sessions :
          PaymentStep(s) =>
              \A i \in TransactionsOf(transactions, arg[s]) :
                  transactions[i].payment_status # "pending" =>
                      /\ transactions'[i].payment_status = transactions[i].payment_status
                      /\ transactions'[i].payment_method = transactions[i].payment_method]_vars

\* C12: in every step the payment_status of a stored transaction stays as it
\* is or moves from 'pending' to 'completed' or 'failed'; a row is never
\* removed, and a new row starts 'pending'.
C12_PaymentStatusOneWay ==
    [][/\ \A i \in DOMAIN transactions :
             /\ i \in DOMAIN transactions'
             /\ \/ transactions'[i].payment_status = transactions[i].payment_status
                \/ /\ transactions[i].payment_status = "pending"
                   /\ transactions'[i].payment_status \in {"completed", "failed"}
       /\ \A i \in DOMAIN transactions' \ DOMAIN transactions :
             transactions'[i].payment_status = "pending"]_vars

\* C12 witness: process_payment has moved a transaction from 'pending' to
\* 'completed', and a second browser session of the buyer, which rendered
\* "Pay Now" before that, is about to run process_payment on the same bid.
C12_Witness ==
    \E i \in DOMAIN transactions, s \in Sessions :
        /\ transactions[i].payment_status = "completed"
        /\ committed.transactions[i].payment_status = "completed"
        /\ pc[s] = "process_payment"
        /\ arg[s] = transactions[i].bid_id

\* The user who owns the listing of bid b.
OwnerOf(b) == produce[bids[b].produce_id].farmer_id

PlaceBidStep(s) == pc[s] = "place_bid" /\ pc'[s] = "idle"

\* C14 (as claimed): place_bid on a listing that is not 'active' at the time
\* of the call, also one marked sold after the buyer's page was rendered,
\* inserts no bid row.
C14_NoBidOnSoldListing ==
    [][\A s \in Sessions :
          (PlaceBidStep(s) /\ produce[arg[s].produce_id].status # "active")
              => bids' = bids]_vars

\* C15: place_bid adds exactly one bid row, 'pending' and carrying the form's
\* values, keeps the rows already stored, and leaves produce (every listing's
\* quantity and status) and transactions unchanged: nothing is reserved.
C15_PlaceBidReservesNothing ==
    [][\A s \in Sessions :
          PlaceBidStep(s) =>
              /\ Len(bids') = Len(bids) + 1
              /\ \A b \in DOMAIN bids : bids'[b] = bids[b]
              /\ bids'[Len(bids')].status = "pending"
              /\ bids'[Len(bids')].produce_id = arg[s].produce_id
              /\ bids'[Len(bids')].quantity_requested = arg[s].quantity_requested
              /\ produce' = produce
              /\ transactions' = transactions]_vars

\* C15 witness: two 'pending' bids on one listing, each within the listing's
\* quantity, that together request more than it.
C15_Witness ==
    \E a \in DOMAIN bids, b \in DOMAIN bids :
        /\ a # b
        /\ bids[a].produce_id = bids[b].produce_id
        /\ bids[a].status = "pending"
        /\ bids[b].status = "pending"
        /\ bids[a].quantity_requested <= produce[bids[a].produce_id].quantity
        /\ bids[b].quantity_requested <= produce[bids[a].produce_id].quantity
        /\ bids[a].quantity_requested + bids[b].quantity_requested
               > produce[bids[a].produce_id].quantity

\* C16 (as claimed): every 'sold' listing has quantity 0 and at least one
\* 'accepted' bid: a listing becomes 'sold' only when an accepted bid brings
\* its quantity to 0.
C16_SoldOnlyWhenExhausted ==
    \A p \in DOMAIN produce :
        produce[p].status = "sold" =>
            /\ produce[p].quantity = 0
            /\ \E b \in DOMAIN bids :
                   bids[b].produce_id = p /\ bids[b].status = "accepted"

\* C17 (as claimed): every purchases row of back.py names a products row that
\* exists, and every bids row of main.py names a produce row that exists.
C17_NoDanglingReference ==
    /\ \A i \in DOMAIN purchases :
          /\ purchases[i].product_id \in DOMAIN products
          /\ ~products[purchases[i].product_id].deleted
    /\ \A b \in DOMAIN bids : bids[b].produce_id \in DOMAIN produce

\* C18: add_purchase(c, pid, qty), step by step.  The test: when the product
\* exists with quantity >= qty the call goes on and has written nothing yet,
\* otherwise it returns False and products and purchases are unchanged.  The
\* UPDATE: when the product row is still the one the call read (nothing ran in
\* between), its quantity goes down by exactly qty and no other row changes.
\* The INSERT, unless it raises: one purchases row [c, pid, qty] is added,
\* products is unchanged and the call returns True.
C18_SequentialPurchase ==
    [][\A c \in Callers :
          /\ \A pid \in 1..MaxProducts, qty \in QtyInputs :
                add_purchase_read(c, pid, qty) =>
                    /\ products' = products
                    /\ purchases' = purchases
                    /\ IF /\ pid \in DOMAIN products
                          /\ ~products[pid].deleted
                          /\ products[pid].quantity >= qty
                         THEN bpc'[c] = "update" /\ result'[c] # "False"
                         ELSE bpc'[c] = "idle" /\ result'[c] = "False"
          /\ (bpc[c] = "update" /\ bpc'[c] = "insert"
                 /\ products[blocal[c].pid] = blocal[c].product)
                => /\ products'[blocal[c].pid].quantity =
                          products[blocal[c].pid].quantity - blocal[c].qty
                   /\ \A p \in DOMAIN products :
                          p # blocal[c].pid => products'[p] = products[p]
                   /\ DOMAIN products' = DOMAIN products
                   /\ purchases' = purchases
          /\ (bpc[c] = "insert" /\ bpc'[c] = "idle" /\ result'[c] # "raised")
                => /\ purchases' = Append(purchases,
                          [username |-> c, product_id |-> blocal[c].pid,
                           quantity |-> blocal[c].qty])
                   /\ products' = products
                   /\ result'[c] = "True"]_vars

\* C18 witness: one call has bought a positive quantity with nothing running
\* in between (the product holds exactly the listed quantity less the one
\* purchases row, and the call returned True) and another call returned False.
C18_Witness ==
    \E c \in Callers, d \in Callers :
        /\ result[c] = "True"
        /\ result[d] = "False"
        /\ bpc[c] = "idle" /\ bpc[d] = "idle"
        /\ Len(purchases) = 1
        /\ purchases[1].username = c
        /\ purchases[1].quantity > 0
        /\ stocked[purchases[1].product_id].purchases_only
        /\ ~products[purchases[1].product_id].deleted
        /\ products[purchases[1].product_id].quantity =
               stocked[purchases[1].product_id].listed - purchases[1].quantity

\* C19: no two transactions rows have the same transaction_id, whichever
\* values generate_transaction_id returns; the same holds of the committed
\* relation.
C19_TransactionIdUnique ==
    /\ \A i \in DOMAIN transactions, j \in DOMAIN transactions :
          transactions[i].transaction_id = transactions[j].transaction_id => i = j
    /\ \A i \in DOMAIN committed.transactions, j \in DOMAIN committed.transactions :
          committed.transactions[i].transaction_id =
              committed.transactions[j].transaction_id => i = j

\* C19 witness: generate_transaction_id has returned a stored value and the
\* INSERT was refused: one transactions row is stored, and a second bid is
\* 'accepted' without a row while no accept_bid is running.
C19_Witness ==
    /\ Len(transactions) = 1
    /\ \A s \in Sessions : pc[s] = "idle"
    /\ \E b \in DOMAIN bids :
          /\ bids[b].status = "accepted"
          /\ b # transactions[1].bid_id
          /\ TransactionsOf(transactions, b) = {}

\* Session s fetches the bids of a listing in this step.
ViewStep(s) == shown'[s] # shown[s]

\* The rows fetched are exactly the bids of listing p, each once.
ExactlyListing(rows, p) ==
    /\ {rows[i] : i \in DOMAIN rows} = listing_bids(p)
    /\ Len(rows) = Cardinality(listing_bids(p))

\* C20 (as claimed): view_produce_bids fetches exactly the bids of the
\* listing, ordered by bid_amount descending and, among equal amounts, by
\* created_at ascending.
C20_BidsByAmount ==
    [][\A s \in Sessions :
          ViewStep(s) =>
              LET rows == shown'[s].bids IN
              /\ ExactlyListing(rows, shown'[s].produce_id)
              /\ \A i \in DOMAIN rows, j \in DOMAIN rows :
                    i < j =>
                      \/ bids[rows[i]].bid_amount > bids[rows[j]].bid_amount
                      \/ /\ bids[rows[i]].bid_amount = bids[rows[j]].bid_amount
                         /\ bids[rows[i]].created_at <= bids[rows[j]].created_at]_vars

\* C20 (amended): view_produce_bids fetches exactly the bids of the listing,
\* ordered by created_at descending (the newest bid first), whatever the
\* amounts; bids created in the same second come in either order.
C20_BidsNewestFirst ==
    [][\A s \in Sessions :
          ViewStep(s) =>
              LET rows == shown'[s].bids IN
              /\ ExactlyListing(rows, shown'[s].produce_id)
              /\ \A i \in DOMAIN rows, j \in DOMAIN rows :
                    i < j => bids[rows[i]].created_at >= bids[rows[j]].created_at]_vars

\* C20 witness: a session has fetched two bids of a listing, the newer one
\* first although the older one bids more.
C20_Witness ==
    \E s \in Sessions :
        /\ shown[s] # None
        /\ Len(shown[s].bids) = 2
        /\ bids[shown[s].bids[1]].created_at > bids[shown[s].bids[2]].created_at
        /\ bids[shown[s].bids[1]].bid_amount < bids[shown[s].bids[2]].bid_amount

\* C21 (as claimed): every transactions row belongs to a bid whose status is
\* 'accepted'; none is attached to a 'pending' or 'rejected' bid.
C21_TransactionOnAcceptedBid ==
    \A i \in DOMAIN transactions :
        /\ transactions[i].bid_id \in DOMAIN bids
        /\ bids[transactions[i].bid_id].status = "accepted"

\* C22: every transactions row names as farmer_id the farmer_id of the
\* listing of its bid and as buyer_id the buyer_id of its bid, whichever
\* session ran accept_bid.
C22_PartiesMatchBid ==
    \A i \in DOMAIN transactions :
        /\ transactions[i].bid_id \in DOMAIN bids
        /\ transactions[i].farmer_id = OwnerOf(transactions[i].bid_id)
        /\ transactions[i].buyer_id = bids[transactions[i].bid_id].buyer_id

\* C22 witness: farmer 3 owns the listing and has accepted a bid on it while
\* farmer 1 is logged in too: the stored transaction names farmer 3 and the
\* bid's buyer.
C22_Witness ==
    \E i \in DOMAIN transactions, s \in Sessions :
        /\ transactions[i].farmer_id = 3
        /\ transactions[i].buyer_id \in Buyers
        /\ committed.transactions = transactions
        /\ user_type(s) = "farmer"
        /\ user_id(s) # transactions[i].farmer_id

\* C23: every produce row has status 'active' or 'sold' and is created
\* 'active'; no step removes a row, and the only change of status a step
\* makes is 'active' to 'sold': a 'sold' listing stays 'sold'.
C23_ListingStatusMonotone ==
    /\ [](\A p \in DOMAIN produce : produce[p].status \in {"active", "sold"})
    /\ [][/\ \A p \in DOMAIN produce :
                /\ p \in DOMAIN produce'
                /\ \/ produce'[p].status = produce[p].status
                   \/ produce[p].status = "active" /\ produce'[p].status = "sold"
          /\ \A p \in DOMAIN produce' \ DOMAIN produce :
                produce'[p].status = "active"]_vars

\* C23 witness: mark_as_sold has set a listing 'sold' (durably) and accept_bid
\* has run on a bid of that listing: the listing reads 'sold'.
C23_Witness ==
    \E p \in DOMAIN produce, b \in DOMAIN bids :
        /\ produce[p].status = "sold"
        /\ committed.produce[p].status = "sold"
        /\ bids[b].produce_id = p
        /\ bids[b].status = "accepted"
        /\ TransactionsOf(transactions, b) # {}

\* C24 (as claimed): add_purchase with qty <= 0 (on a product whose quantity
\* is not negative, to keep C2's case out) returns False at its test and
\* records no purchase, and no add_purchase raises a product's quantity: its
\* UPDATE, run on the product row as the call read it, leaves the quantity
\* less than or equal to what it was.
C24_PurchaseNeverAddsStock ==
    [][\A c \in Callers :
          /\ (bpc[c] = "idle" /\ bpc'[c] = "update"
                 /\ blocal'[c].product.quantity >= 0)
                => blocal'[c].qty > 0
          /\ (bpc[c] = "update" /\ bpc'[c] = "insert"
                 /\ products[blocal[c].pid] = blocal[c].product)
                => products'[blocal[c].pid].quantity <= products[blocal[c].pid].quantity
          /\ (bpc[c] = "insert" /\ result'[c] = "True")
                => purchases'[Len(purchases')].quantity > 0]_vars

\* Session s takes any step of accept_bid, its SELECT included.
AcceptCallStep(s) ==
    pc[s] \in {"accept_bid", "accept_update", "accept_insert", "accept_commit"}
    /\ pc'[s] # pc[s]

\* C25: a step of accept_bid(b) or reject_bid(b) changes no bid other than b
\* (the other bids on the same listing included) and adds or removes no bid,
\* and changes no produce row; reject_bid leaves transactions as it is, and
\* accept_bid changes no stored transactions row and adds rows of bid b only.
C25_DecisionTouchesOnlyItsBid ==
    [][\A s \in Sessions :
          (AcceptCallStep(s) \/ RejectStep(s)) =>
              /\ DOMAIN bids' = DOMAIN bids
              /\ \A b \in DOMAIN bids : b # arg[s] => bids'[b] = bids[b]
              /\ produce' = produce
              /\ RejectStep(s) => transactions' = transactions
              /\ \A i \in DOMAIN transactions :
                    i \in DOMAIN transactions' /\ transactions'[i] = transactions[i]
              /\ \A i \in DOMAIN transactions' \ DOMAIN transactions :
                    transactions'[i].bid_id = arg[s]]_vars

\* C25 witness: of two bids on one listing one has been rejected, and the
\* other is still 'pending' while an accept_bid on it is under way.
C25_Witness ==
    \E r \in DOMAIN bids, b \in DOMAIN bids, s \in Sessions :
        /\ r # b
        /\ bids[r].produce_id = bids[b].produce_id
        /\ bids[r].status = "rejected"
        /\ committed.bids[r].status = "rejected"
        /\ bids[b].status = "pending"
        /\ pc[s] = "accept_update"
        /\ arg[s] = b

====
